---- MODULE Spec2Model ----
(***************************************************************************)
(* PhaserAI serverless backend: the users / languages / words resource     *)
(* handlers over the relational schema of migration 20250101_120000, and   *)
(* the migration runner with its ledger and stack-lifecycle callback.      *)
(*                                                                         *)
(* Every execute_query call is its own committed transaction, so a handler *)
(* is a sequence of committed statements; the handler actions below run    *)
(* that sequence to its end (one invocation, no other invocation in        *)
(* between).  A statement may raise: an injected infrastructure fault      *)
(* (parameter fail = index of the execute_query call that raises, 0 for    *)
(* none) or a constraint of the schema (UNIQUE, FOREIGN KEY).              *)
(***************************************************************************)
EXTENDS Integers, Sequences, FiniteSets, TLC

\* ------------------------------------------------------------------------
\* Bounds of the model
\* ------------------------------------------------------------------------
\* languages / words / translations stored at a time.  A server-generated
\* id is any id no stored row holds (the least one here); translations carry
\* no id in the model, the table is the sequence of its rows in created_at
\* order.
MaxLang == 1
MaxWord == 2
MaxTrans == 2
\* longest embedded translations list in a request body
MaxTransLen == 2
\* migration handler invocations (the clock NOW() advances with each)
MaxClock == 3
MaxRuns == 2        \* invocations of run_migrations per concurrent caller

\* Request inputs
UserIds == {"u1", "u2"}
Emails == {"e1", "e2"}
Usernames == {"n1"}
NoUser == "none"
NoId == 0

VARIABLES
    users,          \* app_8b514_users rows
    languages,      \* app_8b514_languages rows
    words,          \* app_8b514_words rows
    translations,   \* app_8b514_translations rows, in created_at order
    last,           \* the last resource-handler invocation: request and response
    ledger,         \* schema_migrations rows
    schema,         \* versions whose body is committed in the database
    bodyRuns,       \* per version: how many times its body was executed
    now,            \* database clock NOW()
    mlast,          \* the last migration-handler invocation: event and outcome
    call,           \* the execute_query call in progress, statement by statement
    stored,         \* the rows the statements of execute_query act on
    runners,        \* concurrent run_migrations invocations, statement by statement
    updaters        \* concurrent update_word invocations, statement by statement

apiVars == <<users, languages, words, translations, last>>
migVars == <<ledger, schema, bodyRuns, now, mlast>>
stepVars == <<call, stored, runners, updaters>>
vars == <<users, languages, words, translations, last,
          ledger, schema, bodyRuns, now, mlast, call, stored, runners, updaters>>

\* ------------------------------------------------------------------------
\* db_utils.py
\* ------------------------------------------------------------------------
\* lambda_response(status_code, body): the envelope, reduced to the status
\* code and the 'error' text of the body ("" on success)
lambda_response(status, error) == [status |-> status, error |-> error]

\* str(e) of the exceptions execute_query re-raises
OperationalError == "OperationalError"
\* cursor.fetchall() after a statement that returns no rows (an INSERT or
\* DELETE without RETURNING): psycopg2 raises ProgrammingError
NoResultsToFetch == "no results to fetch"
UniqueViolation == "UniqueViolation"
ForeignKeyViolation == "ForeignKeyViolation"
KeyError == "KeyError"

\* A JSON object body: a function from the keys present to their values
EmptyBody == [k \in {} |-> ""]
Has(body, key) == key \in DOMAIN body

\* `for field in required_fields: if field not in data: return 400`
\* the first field of the list missing from the body, "" when none is
FirstMissingSwapped(required, body) ==
    LET miss == {i \in 1..Len(required) : ~Has(body, required[i])}
    IN IF miss = {} THEN ""
       ELSE required[CHOOSE i \in miss : \A j \in miss : j <= i]
FirstMissing(required, body) ==
    LET miss == {i \in 1..Len(required) : ~Has(body, required[i])}
    IN IF miss = {} THEN ""
       ELSE required[CHOOSE i \in miss : \A j \in miss : i <= j]
MissingMsg(field) == "Missing required field: " \o field

\* What one handler invocation leaves behind: the tables, the response, and
\* the number of execute_query calls it made
Outcome(u, l, w, t, resp, stmts) ==
    [users |-> u, languages |-> l, words |-> w, translations |-> t,
     status |-> resp.status, error |-> resp.error, stmts |-> stmts]
\* an invocation that changed no table
NoChange(resp, stmts) ==
    Outcome(users, languages, words, translations, resp, stmts)
\* The tables as one value (the snapshot an invocation starts from)
Tables == [users |-> users, languages |-> languages, words |-> words,
           translations |-> translations]
\* The event of a request routed to an operation with a JSON object as body
Routed == [httpMethod |-> "routed", body |-> "json"]
\* No invocation in progress: the previous response has been returned
Idle == [op |-> "none", uid |-> NoUser, id |-> NoId, body |-> EmptyBody, fail |-> 0,
         status |-> 0, error |-> "", stmts |-> 0, pre |-> <<>>,
         event |-> Routed, result |-> {}]
\* One invocation of a handler: the statements it committed, its response
\* (result = the rows of a 200 answer to a read) and the event it was for
CommitEvent(o, op, uid, id, body, fail, event, result) ==
    /\ users' = o.users
    /\ languages' = o.languages
    /\ words' = o.words
    /\ translations' = o.translations
    /\ last' = [op |-> op, uid |-> uid, id |-> id, body |-> body, fail |-> fail,
                status |-> o.status, error |-> o.error, stmts |-> o.stmts,
                pre |-> Tables, event |-> event, result |-> result]
    /\ UNCHANGED <<migVars, stepVars>>
Commit(o, op, uid, id, body, fail) ==
    CommitEvent(o, op, uid, id, body, fail, Routed, {})
\* What a read leaves behind: the response, the rows it returned, the number
\* of execute_query calls it made
Answer(resp, result, stmts) ==
    [status |-> resp.status, error |-> resp.error, result |-> result, stmts |-> stmts]
\* One invocation of a handler for a read
Respond(a, op, uid, id, fail) ==
    CommitEvent(NoChange([status |-> a.status, error |-> a.error], a.stmts),
                op, uid, id, EmptyBody, fail, Routed, a.result)
\* The response envelope is returned to the platform; the handler keeps no
\* state between invocations
Return ==
    /\ last # Idle
    /\ last' = Idle
    /\ UNCHANGED <<users, languages, words, translations>>
    /\ UNCHANGED <<migVars, stepVars>>

\* two invocations of the same Lambda at the same time
Procs == {1, 2}

\* ------------------------------------------------------------------------
\* db_utils.execute_query, statement by statement
\* ------------------------------------------------------------------------
Rows == {"r1", "r2"}
\* the statements the handlers pass: SELECT, INSERT and DELETE, the writes
\* with or without a RETURNING clause
Statements ==
    {[kind |-> "select", row |-> r, returning |-> TRUE] : r \in Rows}
      \cup {[kind |-> k, row |-> r, returning |-> b] :
               k \in {"insert", "delete"}, r \in Rows, b \in BOOLEAN}
NoCall == [pc |-> "idle", stmt |-> [kind |-> "none", row |-> "", returning |-> FALSE], obtained |-> FALSE, open |-> FALSE,
           pending |-> {}, commits |-> 0, rollbacks |-> 0, raised |-> "",
           failedAt |-> "", pre |-> {}]
\* the rows after the statement
Effect(stmt, rows) ==
    IF stmt.kind = "insert" THEN rows \cup {stmt.row}
    ELSE IF stmt.kind = "delete" THEN rows \ {stmt.row}
    ELSE rows
\* `except Exception as e:` entered from the step `at`
Except(c, e, at) == [c EXCEPT !.pc = "except", !.raised = e, !.failedAt = at]
\* `connection.close()` of the finally clause
ConnectionLeftOpen(c) == c
connection_close(c) == [c EXCEPT !.open = FALSE]

\* execute_query(query, params): connection = get_db_connection();
\* cursor = connection.cursor()
GetDbConnection ==
    /\ call.pc = "idle"
    /\ \E stmt \in Statements, connected \in BOOLEAN :
        call' = IF connected
                THEN [NoCall EXCEPT !.pc = "execute", !.stmt = stmt, !.obtained = TRUE,
                                    !.open = TRUE, !.pending = stored, !.pre = stored]
                ELSE [NoCall EXCEPT !.pc = "raised", !.stmt = stmt,
                                    !.raised = OperationalError, !.failedAt = "connect"]
    /\ UNCHANGED <<stored, runners, updaters, apiVars, migVars>>
\* cursor.execute(query, params), inside the connection's transaction
CursorExecute ==
    /\ call.pc = "execute"
    /\ \E lost \in BOOLEAN :
        call' = IF lost THEN Except(call, OperationalError, "execute")
                ELSE IF call.stmt.kind = "insert" /\ call.stmt.row \in stored
                     THEN Except(call, UniqueViolation, "execute")
                ELSE [call EXCEPT !.pc = "fetch", !.pending = Effect(call.stmt, stored)]
    /\ UNCHANGED <<stored, runners, updaters, apiVars, migVars>>
\* `if fetch:` (every caller leaves fetch at True): cursor.fetchall(), which
\* raises for a statement that returns no rows
CursorFetchall ==
    /\ call.pc = "fetch"
    /\ call' = IF call.stmt.returning THEN [call EXCEPT !.pc = "commit"]
               ELSE Except(call, NoResultsToFetch, "fetch")
    /\ UNCHANGED <<stored, runners, updaters, apiVars, migVars>>
\* connection.commit(): it returns, or the server refuses it, or the
\* connection is lost before the answer arrives (the transaction may then
\* have been committed or not)
ConnectionCommit ==
    /\ call.pc = "commit"
    /\ \E answer \in {"ok", "refused", "lost"}, applied \in BOOLEAN :
        /\ answer = "ok" => applied
        /\ answer = "refused" => ~applied
        /\ stored' = IF applied THEN call.pending ELSE stored
        /\ call' = IF answer = "ok"
                   THEN [call EXCEPT !.pc = "finally", !.commits = @ + 1]
                   ELSE Except(call, OperationalError, "commit")
    /\ UNCHANGED <<runners, updaters, apiVars, migVars>>
\* connection.rollback(); raise e.  When rollback itself raises, its
\* exception replaces e; the finally clause runs all the same.
ConnectionRollback ==
    /\ call.pc = "except"
    /\ \E lost \in BOOLEAN :
        call' = [call EXCEPT !.pc = "finally", !.rollbacks = @ + 1, !.pending = stored,
                             !.raised = IF lost THEN "rollback failed" ELSE @]
    /\ UNCHANGED <<stored, runners, updaters, apiVars, migVars>>
\* finally: cursor.close(); connection.close()
Finally ==
    /\ call.pc = "finally"
    /\ call' = [connection_close(call) EXCEPT
                  !.pc = IF call.raised = "" THEN "returned" ELSE "raised"]
    /\ UNCHANGED <<stored, runners, updaters, apiVars, migVars>>
\* the caller has the result or the exception
CallEnds ==
    /\ call.pc \in {"returned", "raised"}
    /\ call' = NoCall
    /\ UNCHANGED <<stored, runners, updaters, apiVars, migVars>>

\* event['body'] as the handlers meet it: the key absent, null, a string (the
\* empty string, the text of a JSON object, text that is not JSON) or an
\* already structured mapping; value = the mapping a JSON text encodes
EventBody(type, text, value) == [type |-> type, text |-> text, value |-> value]
BodyLabel(event_body) ==
    IF event_body.type # "str" THEN event_body.type
    ELSE IF event_body.text = "" THEN "empty" ELSE event_body.text
EventBodies(mappings) ==
    {EventBody("absent", "", EmptyBody), EventBody("null", "", EmptyBody),
     EventBody("str", "", EmptyBody), EventBody("str", "invalid", EmptyBody),
     EventBody("str", "json", EmptyBody)}
      \cup {EventBody("dict", "", m) : m \in mappings}

JSONDecodeError == "Expecting value: line 1 column 1 (char 0)"
NoMethod == "absent"
Methods == {NoMethod, "POST", "PUT", "DELETE", "PATCH"}

\* what extract_body returns: a mapping, None, or an exception
Parsed(value) == [raised |-> "", none |-> FALSE, value |-> value]
json_loads(s) ==
    IF s.text = "invalid"
    THEN [raised |-> JSONDecodeError, none |-> FALSE, value |-> EmptyBody]
    ELSE Parsed(s.value)
\* body = event.get('body', '{}'); a str is parsed unless empty; anything
\* else (a mapping, None) is returned as it is
extract_body(event_body) ==
    LET body == IF event_body.type = "absent"
                THEN EventBody("str", "json", EmptyBody) ELSE event_body
    IN IF body.type = "str"
       THEN (IF body.text = "" THEN Parsed(EmptyBody) ELSE json_loads(body))
       ELSE IF body.type = "null"
            THEN [raised |-> "", none |-> TRUE, value |-> EmptyBody]
       ELSE Parsed(body.value)

\* `except Exception as e: return lambda_response(500, {'error': str(e)})`
HandlerBoundaryLeaks(e) == lambda_response(200, e)
HandlerBoundary(e) == lambda_response(500, e)

\* The part of a handler's try block that precedes the operation it routes
\* to, for POST/PUT and for methods it does not know: done = the response is
\* already decided.  With a None body a create raises at its first `field
\* not in data`; an update first answers 400 when the path id is missing
\* and raises otherwise at its first `in` test.
Dispatch(method, supported, x, idMissing, idMsg) ==
    IF method = NoMethod
    THEN [done |-> TRUE, resp |-> HandlerBoundary("'httpMethod'")]
    ELSE IF method \notin supported
         THEN [done |-> TRUE, resp |-> lambda_response(405, "Method not allowed")]
    ELSE IF x.raised # "" THEN [done |-> TRUE, resp |-> HandlerBoundary(x.raised)]
    ELSE IF x.none /\ method = "PUT" /\ idMissing
         THEN [done |-> TRUE, resp |-> lambda_response(400, idMsg)]
    ELSE IF x.none THEN [done |-> TRUE, resp |-> HandlerBoundary("argument of type 'NoneType' is not iterable")]
    ELSE [done |-> FALSE, resp |-> lambda_response(0, "")]
\* the response decided before any operation ran: no database call
Decided(d, op, uid, id, event) ==
    CommitEvent(NoChange(d.resp, 0), op, uid, id, EmptyBody, 0, event, {})

\* ------------------------------------------------------------------------
\* users.py
\* ------------------------------------------------------------------------
UserRequired == <<"user_id", "email", "username">>
UserRow(uid, email, username) == [user_id |-> uid, email |-> email, username |-> username]

\* email TEXT NOT NULL UNIQUE: another row already holds the email
EmailTaken(uid, email) == \E r \in users : r.user_id # uid /\ r.email = email

\* INSERT ... ON CONFLICT (user_id) DO UPDATE SET email, username
UpsertIgnoringConflict(tbl, uid, email, username) ==
    IF \E r \in tbl : r.user_id = uid THEN tbl
    ELSE tbl \cup {UserRow(uid, email, username)}
UpsertUser(tbl, uid, email, username) ==
    {r \in tbl : r.user_id # uid} \cup {UserRow(uid, email, username)}

create_or_update_user(user_data, fail) ==
    LET missing == FirstMissing(UserRequired, user_data)
    IN IF missing # "" THEN NoChange(lambda_response(400, MissingMsg(missing)), 0)
       ELSE IF fail = 1 THEN NoChange(lambda_response(500, OperationalError), 1)
       ELSE IF EmailTaken(user_data.user_id, user_data.email)
            THEN NoChange(lambda_response(500, UniqueViolation), 1)
       ELSE Outcome(UpsertUser(users, user_data.user_id, user_data.email, user_data.username),
                    languages, words, translations, 
                    lambda_response(201, ""), 1)

\* UPDATE app_8b514_users SET <fields present> WHERE user_id = %s
UpdateUserRow(r, user_data) ==
    [r EXCEPT !.email = IF Has(user_data, "email") THEN user_data.email ELSE @,
              !.username = IF Has(user_data, "username") THEN user_data.username ELSE @]
UserUpdateFields(user_data) == {"email", "username"} \cap DOMAIN user_data

update_user(user_id, user_data, fail) ==
    IF user_id = NoUser THEN NoChange(lambda_response(400, "User ID is required"), 0)
    ELSE IF UserUpdateFields(user_data) = {}
         THEN NoChange(lambda_response(400, "No fields to update"), 0)
    ELSE IF fail = 1 THEN NoChange(lambda_response(500, OperationalError), 1)
    ELSE IF ~\E r \in users : r.user_id = user_id
         THEN NoChange(lambda_response(404, "User not found"), 1)
    ELSE IF Has(user_data, "email") /\ EmailTaken(user_id, user_data.email)
         THEN NoChange(lambda_response(500, UniqueViolation), 1)
    ELSE Outcome({IF r.user_id = user_id THEN UpdateUserRow(r, user_data) ELSE r : r \in users},
                 languages, words, translations, 
                 lambda_response(200, ""), 1)

get_user(user_id, fail) ==
    IF user_id = NoUser THEN Answer(lambda_response(400, "User ID is required"), {}, 0)
    ELSE IF fail = 1 THEN Answer(lambda_response(500, OperationalError), {}, 1)
    ELSE IF ~\E r \in users : r.user_id = user_id
         THEN Answer(lambda_response(404, "User not found"), {}, 1)
    ELSE Answer(lambda_response(200, ""), {r \in users : r.user_id = user_id}, 1)

\* request bodies of the users handler: any subset of the three keys
UserBodies ==
    {b \in UNION {[K -> UserIds \cup Emails \cup Usernames] :
                    K \in SUBSET {"user_id", "email", "username"}} :
        /\ Has(b, "user_id") => b.user_id \in UserIds
        /\ Has(b, "email") => b.email \in Emails
        /\ Has(b, "username") => b.username \in Usernames}

\* POST /users
CreateOrUpdateUser ==
    /\ last = Idle
    /\ \E body \in UserBodies, fail \in 0..1 :
        LET o == create_or_update_user(body, fail)
        IN /\ fail <= o.stmts
           /\ Commit(o, "create_or_update_user", NoUser, NoId, body, fail)

\* PUT /users/{userId}
UpdateUser ==
    /\ last = Idle
    /\ \E user_id \in UserIds \cup {NoUser}, body \in UserBodies, fail \in 0..1 :
        LET o == update_user(user_id, body, fail)
        IN /\ fail <= o.stmts
           /\ Commit(o, "update_user", user_id, NoId, body, fail)

\* GET /users/{userId}
GetUser ==
    /\ last = Idle
    /\ \E user_id \in UserIds \cup {NoUser}, fail \in 0..1 :
        LET a == get_user(user_id, fail)
        IN /\ fail <= a.stmts
           /\ Respond(a, "get_user", user_id, NoId, fail)

\* ------------------------------------------------------------------------
\* languages.py
\* ------------------------------------------------------------------------
LanguageRequired == <<"user_id", "name">>
LanguageFields == {"name", "phonemes", "alphabet_mappings", "syllables", "rules"}
LangIds == 1..MaxLang
WordIds == 1..MaxWord

\* the defaults of create_language (lines 92-101)
DefaultPhonemes == "{consonants:[],vowels:[],diphthongs:[]}"
DefaultMappings == "{consonants:{},vowels:{},diphthongs:{}}"
Get(body, key, default) == IF Has(body, key) THEN body[key] ELSE default

\* id ... DEFAULT uuid_generate_v4() PRIMARY KEY: an id no stored row holds
FreshId(used, pool) == CHOOSE i \in pool \ used : \A j \in pool \ used : i <= j
\* the rows of a translations sequence with a word_id outside `gone`
RECURSIVE Without(_, _)
Without(rows, gone) ==
    IF rows = <<>> THEN <<>>
    ELSE IF Head(rows).word_id \in gone THEN Without(Tail(rows), gone)
    ELSE <<Head(rows)>> \o Without(Tail(rows), gone)

UserExists(uid) == \E r \in users : r.user_id = uid
LanguageExists(id) == \E l \in languages : l.id = id
Owns(uid, id) == \E l \in languages : l.id = id /\ l.user_id = uid

\* ON DELETE CASCADE, words -> translations
WordsOf(langs) == {w \in words : w.language_id \in langs}

create_language(language_data, fail) ==
    LET missing == FirstMissing(LanguageRequired, language_data)
    IN IF missing # "" THEN NoChange(lambda_response(400, MissingMsg(missing)), 0)
       ELSE IF fail = 1 THEN NoChange(lambda_response(500, OperationalError), 1)
       ELSE IF ~UserExists(language_data.user_id)
            THEN NoChange(lambda_response(500, ForeignKeyViolation), 1)
       ELSE Outcome(users,
                    languages \cup
                      {[id |-> FreshId({l.id : l \in languages}, LangIds),
                        user_id |-> language_data.user_id,
                        name |-> language_data.name,
                        phonemes |-> Get(language_data, "phonemes", DefaultPhonemes),
                        alphabet_mappings |-> Get(language_data, "alphabet_mappings", DefaultMappings),
                        syllables |-> Get(language_data, "syllables", "CV"),
                        rules |-> Get(language_data, "rules", "")]},
                    words, translations,
                    lambda_response(201, ""), 1)

\* the fields of the body the UPDATE statement sets
LanguageUpdateFieldsAny(language_data) == DOMAIN language_data
LanguageUpdateFields(language_data) == LanguageFields \cap DOMAIN language_data

\* UPDATE app_8b514_languages SET <fields present> WHERE id = %s
UpdateLanguageRow(l, language_data) ==
    [f \in DOMAIN l |->
        IF f \in LanguageUpdateFields(language_data) THEN language_data[f] ELSE l[f]]

UpdateLanguageAnyOwner(language_id, language_data, fail) ==
    IF language_id = NoId THEN NoChange(lambda_response(400, "Language ID is required"), 0)
    ELSE IF LanguageUpdateFields(language_data) = {}
         THEN NoChange(lambda_response(400, "No fields to update"), 0)
    ELSE IF fail = 1 THEN NoChange(lambda_response(500, OperationalError), 1)
    ELSE IF ~LanguageExists(language_id)
         THEN NoChange(lambda_response(404, "Language not found"), 1)
    ELSE Outcome(users,
                 {IF l.id = language_id THEN UpdateLanguageRow(l, language_data) ELSE l :
                     l \in languages},
                 words, translations, lambda_response(200, ""), 1)
update_language(language_id, language_data, fail) ==
    IF language_id = NoId THEN NoChange(lambda_response(400, "Language ID is required"), 0)
    ELSE IF LanguageUpdateFields(language_data) = {}
         THEN NoChange(lambda_response(400, "No fields to update"), 0)
    ELSE
      LET verify == Has(language_data, "user_id")
          n == IF verify THEN 1 ELSE 0
      IN IF verify /\ fail = 1 THEN NoChange(lambda_response(500, OperationalError), 1)
         ELSE IF verify /\ ~LanguageExists(language_id)
              THEN NoChange(lambda_response(404, "Language not found"), 1)
         ELSE IF verify /\ ~Owns(language_data.user_id, language_id)
              THEN NoChange(lambda_response(403, "Access denied"), 1)
         ELSE IF fail = n + 1 THEN NoChange(lambda_response(500, OperationalError), n + 1)
         ELSE IF ~LanguageExists(language_id)
              THEN NoChange(lambda_response(404, "Language not found"), n + 1)
         ELSE Outcome(users,
                      {IF l.id = language_id THEN UpdateLanguageRow(l, language_data) ELSE l :
                          l \in languages},
                      words, translations, 
                      lambda_response(200, ""), n + 1)

\* DELETE FROM app_8b514_languages WHERE id = %s [AND user_id = %s], with the
\* cascade of the schema
DeleteLanguagesKeepWords(gone) ==
    Outcome(users, {l \in languages : l.id \notin gone}, words, translations,
            lambda_response(200, ""), 1)
DeleteLanguages(gone) ==
    LET ws == {w.id : w \in WordsOf(gone)}
    IN Outcome(users,
               {l \in languages : l.id \notin gone},
               words \ WordsOf(gone),
               Without(translations, ws),
               lambda_response(200, ""), 1)

delete_language(language_id, user_id, fail) ==
    IF language_id = NoId THEN NoChange(lambda_response(400, "Language ID is required"), 0)
    ELSE IF fail = 1 THEN NoChange(lambda_response(500, OperationalError), 1)
    ELSE IF \/ ~LanguageExists(language_id)
            \/ (user_id # NoUser /\ ~Owns(user_id, language_id))
         THEN NoChange(lambda_response(404, "Language not found or access denied"), 1)
    ELSE DeleteLanguages({language_id})

get_languages(user_id, fail) ==
    IF fail = 1 THEN Answer(lambda_response(500, OperationalError), {}, 1)
    ELSE Answer(lambda_response(200, ""),
                {l \in languages : user_id = NoUser \/ l.user_id = user_id}, 1)

get_user_languages(user_id, fail) ==
    IF user_id = NoUser THEN Answer(lambda_response(400, "User ID is required"), {}, 0)
    ELSE IF fail = 1 THEN Answer(lambda_response(500, OperationalError), {}, 1)
    ELSE Answer(lambda_response(200, ""), {l \in languages : l.user_id = user_id}, 1)

get_language(language_id, user_id, fail) ==
    LET found == {l \in languages :
                    l.id = language_id /\ (user_id = NoUser \/ l.user_id = user_id)}
    IN IF language_id = NoId
       THEN Answer(lambda_response(400, "Language ID is required"), {}, 0)
       ELSE IF fail = 1 THEN Answer(lambda_response(500, OperationalError), {}, 1)
       ELSE IF found = {} THEN Answer(lambda_response(404, "Language not found"), {}, 1)
       ELSE Answer(lambda_response(200, ""), found, 1)

\* request bodies of the languages handler
LanguageBodies ==
    {b \in UNION {[K -> UserIds \cup {"L1", "L2", "", DefaultPhonemes}] :
                    K \in {{}, {"user_id"}, {"name"}, {"user_id", "name"}, {"rules"},
                           {"user_id", "rules"}, {"phonemes"}, {"id"}, {"user_id", "id"}}} :
        /\ Has(b, "user_id") => b.user_id \in UserIds
        /\ Has(b, "name") => b.name \in {"L1", "L2"}
        /\ Has(b, "rules") => b.rules = ""
        /\ Has(b, "phonemes") => b.phonemes = DefaultPhonemes
        /\ Has(b, "id") => b.id = "L1"}

\* POST /languages
CreateLanguage ==
    /\ last = Idle
    /\ Cardinality(languages) < MaxLang
    /\ \E body \in LanguageBodies, fail \in 0..1 :
        LET o == create_language(body, fail)
        IN /\ fail <= o.stmts
           /\ Commit(o, "create_language", NoUser, NoId, body, fail)

\* PUT /languages/{languageId}
UpdateLanguage ==
    /\ last = Idle
    /\ \E language_id \in LangIds \cup {NoId}, body \in LanguageBodies, fail \in 0..2 :
        LET o == update_language(language_id, body, fail)
        IN /\ fail <= o.stmts
           /\ Commit(o, "update_language", NoUser, language_id, body, fail)

\* DELETE /languages/{languageId}?userId=
DeleteLanguage ==
    /\ last = Idle
    /\ \E language_id \in LangIds \cup {NoId}, user_id \in UserIds \cup {NoUser}, fail \in 0..1 :
        LET o == delete_language(language_id, user_id, fail)
        IN /\ fail <= o.stmts
           /\ Commit(o, "delete_language", user_id, language_id, EmptyBody, fail)

\* GET /languages?userId=
GetLanguages ==
    /\ last = Idle
    /\ \E user_id \in UserIds \cup {NoUser}, fail \in 0..1 :
        Respond(get_languages(user_id, fail), "get_languages", user_id, NoId, fail)

\* GET /users/{userId}/languages
GetUserLanguages ==
    /\ last = Idle
    /\ \E user_id \in UserIds \cup {NoUser}, fail \in 0..1 :
        LET a == get_user_languages(user_id, fail)
        IN /\ fail <= a.stmts
           /\ Respond(a, "get_user_languages", user_id, NoId, fail)

\* GET /languages/{languageId}?userId=
GetLanguage ==
    /\ last = Idle
    /\ \E language_id \in LangIds \cup {NoId}, user_id \in UserIds \cup {NoUser},
          fail \in 0..1 :
        LET a == get_language(language_id, user_id, fail)
        IN /\ fail <= a.stmts
           /\ Respond(a, "get_language", user_id, language_id, fail)

\* A row of app_8b514_users is deleted (no handler does it: an operator or
\* another service); the schema cascades to its languages, their words and
\* their translations
DeleteUserRow ==
    /\ last = Idle
    /\ \E uid \in UserIds :
        /\ UserExists(uid)
        /\ LET o == DeleteLanguages({l.id : l \in {x \in languages : x.user_id = uid}})
           IN Commit([o EXCEPT !.users = {r \in users : r.user_id # uid}],
                     "delete_user_row", uid, NoId, EmptyBody, 0)

\* ------------------------------------------------------------------------
\* words.py
\* ------------------------------------------------------------------------
WordRequired == <<"language_id", "word", "ipa">>
WordFields == {"word", "ipa", "pos", "is_root", "embedding"}

WordExists(id) == \E w \in words : w.id = id
\* SELECT w.id FROM words w JOIN languages l ON w.language_id = l.id
\* WHERE w.id = %s AND l.user_id = %s
OwnsWord(uid, id) == \E w \in words : w.id = id /\ Owns(uid, w.language_id)

\* `if translation.get('meaning')`: present and non-empty
HasMeaning(translation) == Has(translation, "meaning") /\ translation.meaning # ""

\* `for translation in word_data['translations']`: one execute_query per
\* entry with a meaning; k = execute_query calls made so far.  The INSERT has
\* no RETURNING clause and execute_query is called with fetch=True (the
\* default), so after the statement ran cursor.fetchall() raises, the
\* statement is rolled back and the exception ends the loop: no row is ever
\* stored by this loop.
RECURSIVE InsertTranslationsSwallow(_, _, _, _, _)
InsertTranslationsSwallow(rows, word_id, list, k, fail) ==
    IF list = <<>> THEN [rows |-> rows, stmts |-> k, raised |-> ""]
    ELSE IF ~HasMeaning(Head(list))
         THEN InsertTranslationsSwallow(rows, word_id, Tail(list), k, fail)
    ELSE InsertTranslationsSwallow(rows, word_id, Tail(list), k + 1, fail)
RECURSIVE InsertTranslations(_, _, _, _, _)
InsertTranslations(rows, word_id, list, k, fail) ==
    IF list = <<>> THEN [rows |-> rows, stmts |-> k, raised |-> ""]
    ELSE IF ~HasMeaning(Head(list))
         THEN InsertTranslations(rows, word_id, Tail(list), k, fail)
    ELSE [rows |-> rows, stmts |-> k + 1,
          raised |-> IF fail = k + 1 THEN OperationalError ELSE NoResultsToFetch]

\* `if 'translations' in word_data:` of create_word (lines 230-242)
TranslationsResult(rows, word_id, word_data, k, fail) ==
    IF Has(word_data, "translations")
    THEN InsertTranslations(rows, word_id, word_data.translations, k, fail)
    ELSE [rows |-> rows, stmts |-> k, raised |-> ""]

create_word(word_data, fail) ==
    LET missing == FirstMissing(WordRequired, word_data)
        verify == Has(word_data, "user_id")
        n == IF verify THEN 1 ELSE 0
    IN IF missing # "" THEN NoChange(lambda_response(400, MissingMsg(missing)), 0)
       ELSE IF verify /\ fail = 1 THEN NoChange(lambda_response(500, OperationalError), 1)
       ELSE IF verify /\ ~Owns(word_data.user_id, word_data.language_id)
            THEN NoChange(lambda_response(404, "Language not found or access denied"), 1)
       ELSE IF fail = n + 1 THEN NoChange(lambda_response(500, OperationalError), n + 1)
       ELSE IF ~LanguageExists(word_data.language_id)
            THEN NoChange(lambda_response(500, ForeignKeyViolation), n + 1)
       ELSE
         LET word_id == FreshId({w.id : w \in words}, WordIds)
             row == [id |-> word_id,
                     language_id |-> word_data.language_id,
                     word |-> word_data.word,
                     ipa |-> word_data.ipa,
                     pos |-> Get(word_data, "pos", "{}"),
                     is_root |-> Get(word_data, "is_root", FALSE),
                     embedding |-> Get(word_data, "embedding", "NULL")]
             tr == TranslationsResult(translations, word_id, word_data, n + 1, fail)
         IN Outcome(users, languages, words \cup {row}, tr.rows,
                    IF tr.raised # "" THEN lambda_response(500, tr.raised)
                    ELSE lambda_response(201, ""),
                    tr.stmts)

WordUpdateFields(word_data) == WordFields \cap DOMAIN word_data

\* UPDATE app_8b514_words SET <fields present> WHERE id = %s
UpdateWordRow(w, word_data) ==
    [f \in DOMAIN w |-> IF f \in WordUpdateFields(word_data) THEN word_data[f] ELSE w[f]]

\* `if 'translations' in word_data:` of update_word (lines 303-320): the
\* DELETE of the word's translations, then the inserts.  The DELETE has no
\* RETURNING clause either: execute_query raises after rolling it back, so
\* the inserts are never reached and the rows stay.
ReplaceTranslations(word_id, word_data, k, fail) ==
    IF ~Has(word_data, "translations")
    THEN [rows |-> translations, stmts |-> k, raised |-> ""]
    ELSE [rows |-> translations, stmts |-> k + 1,
          raised |-> IF fail = k + 1 THEN OperationalError ELSE NoResultsToFetch]

update_word(word_id, word_data, fail) ==
    LET verify == Has(word_data, "user_id")
        n == IF verify THEN 1 ELSE 0
    IN IF word_id = NoId THEN NoChange(lambda_response(400, "Word ID is required"), 0)
       ELSE IF verify /\ fail = 1 THEN NoChange(lambda_response(500, OperationalError), 1)
       ELSE IF verify /\ ~OwnsWord(word_data.user_id, word_id)
            THEN NoChange(lambda_response(404, "Word not found or access denied"), 1)
       ELSE IF WordUpdateFields(word_data) = {}
            THEN NoChange(lambda_response(400, "No fields to update"), n)
       ELSE IF fail = n + 1 THEN NoChange(lambda_response(500, OperationalError), n + 1)
       ELSE IF ~WordExists(word_id)
            THEN NoChange(lambda_response(404, "Word not found"), n + 1)
       ELSE
         LET tr == ReplaceTranslations(word_id, word_data, n + 1, fail)
         IN Outcome(users, languages,
                    {IF w.id = word_id THEN UpdateWordRow(w, word_data) ELSE w : w \in words},
                    tr.rows,
                    IF tr.raised # "" THEN lambda_response(500, tr.raised)
                    ELSE lambda_response(200, ""),
                    tr.stmts)

\* DELETE FROM app_8b514_words WHERE id = %s [AND language_id IN (the
\* user's languages)], with the cascade to translations
delete_word(word_id, user_id, fail) ==
    IF word_id = NoId THEN NoChange(lambda_response(400, "Word ID is required"), 0)
    ELSE IF fail = 1 THEN NoChange(lambda_response(500, OperationalError), 1)
    ELSE IF \/ ~WordExists(word_id)
            \/ (user_id # NoUser /\ ~OwnsWord(user_id, word_id))
         THEN NoChange(lambda_response(404, "Word not found or access denied"), 1)
    ELSE Outcome(users, languages,
                 {w \in words : w.id # word_id},
                 Without(translations, {word_id}),
                 lambda_response(200, ""), 1)

\* SELECT w.*, json_agg(translations ORDER BY created_at) ... WHERE
\* w.language_id = %s GROUP BY w.id: each word with its translations
WordsWithTranslations(ws) ==
    {[word |-> w, translations |-> Without(translations, {x.id : x \in words \ {w}})] :
        w \in ws}

GetLanguageWordsUnverified(language_id, user_id, fail) ==
    Answer(lambda_response(200, ""),
           WordsWithTranslations({w \in words : w.language_id = language_id}), 1)
get_language_words(language_id, user_id, fail) ==
    LET verify == user_id # NoUser
        n == IF verify THEN 1 ELSE 0
    IN IF language_id = NoId
       THEN Answer(lambda_response(400, "Language ID is required"), {}, 0)
       ELSE IF verify /\ fail = 1 THEN Answer(lambda_response(500, OperationalError), {}, 1)
       ELSE IF verify /\ ~Owns(user_id, language_id)
            THEN Answer(lambda_response(404, "Language not found or access denied"), {}, 1)
       ELSE IF fail = n + 1 THEN Answer(lambda_response(500, OperationalError), {}, n + 1)
       ELSE Answer(lambda_response(200, ""),
                   WordsWithTranslations({w \in words : w.language_id = language_id}),
                   n + 1)

\* get_words(query_params): languageId and userId are optional
get_words(language_id, user_id, fail) ==
    LET verify == language_id # NoId /\ user_id # NoUser
        n == IF verify THEN 1 ELSE 0
    IN IF verify /\ fail = 1 THEN Answer(lambda_response(500, OperationalError), {}, 1)
       ELSE IF verify /\ ~Owns(user_id, language_id)
            THEN Answer(lambda_response(404, "Language not found or access denied"), {}, 1)
       ELSE IF fail = n + 1 THEN Answer(lambda_response(500, OperationalError), {}, n + 1)
       ELSE Answer(lambda_response(200, ""),
                   WordsWithTranslations(
                       {w \in words : language_id = NoId \/ w.language_id = language_id}),
                   n + 1)

get_word(word_id, user_id, fail) ==
    LET found == {w \in words :
                    w.id = word_id /\ (user_id = NoUser \/ Owns(user_id, w.language_id))}
    IN IF word_id = NoId THEN Answer(lambda_response(400, "Word ID is required"), {}, 0)
       ELSE IF fail = 1 THEN Answer(lambda_response(500, OperationalError), {}, 1)
       ELSE IF found = {} THEN Answer(lambda_response(404, "Word not found"), {}, 1)
       ELSE IF fail = 2 THEN Answer(lambda_response(500, OperationalError), {}, 2)
       ELSE Answer(lambda_response(200, ""), WordsWithTranslations(found), 2)

\* request bodies of the words handler, assembled from parts
Merge(f, g) == [k \in DOMAIN f \cup DOMAIN g |-> IF k \in DOMAIN g THEN g[k] ELSE f[k]]
\* translation entries: no meaning key, an empty meaning, two with a meaning
TransEntries ==
    {[language_code |-> "fr"], [meaning |-> ""], [meaning |-> "a"],
     [meaning |-> "b", language_code |-> "fr"]}
TransLists == UNION {[1..n -> TransEntries] : n \in 0..MaxTransLen}
TransParts == {EmptyBody} \cup {[translations |-> L] : L \in TransLists}
OwnerParts == {EmptyBody} \cup {[user_id |-> u] : u \in UserIds}
\* complete create payloads, and update payloads with a recognized field
WordCoreParts ==
    {[language_id |-> i, word |-> "W1", ipa |-> "i"] : i \in LangIds} \cup {[word |-> "W1"]}
\* payloads with a required field missing / with no recognized field
WordBareParts ==
    {EmptyBody, [word |-> "W1", ipa |-> "i"], [language_id |-> 1, ipa |-> "i"],
     [language_id |-> 1, word |-> "W1"], [id |-> 1]}
WordBodies ==
    {Merge(c, o) : c \in WordCoreParts \cup WordBareParts, o \in OwnerParts}
      \cup {Merge(Merge(c, o), t) : c \in WordCoreParts,
              o \in {EmptyBody, [user_id |-> "u1"]}, t \in TransParts}
      \cup {Merge(Merge(c, o), [translations |-> <<[meaning |-> "a"]>>]) :
              c \in WordBareParts, o \in {EmptyBody, [user_id |-> "u2"]}}

\* the execute_query calls a words request can reach
WordFails == 0..(MaxTransLen + 2)

\* POST /words
CreateWord ==
    /\ last = Idle
    /\ Cardinality(words) < MaxWord
    /\ \E body \in WordBodies, fail \in WordFails :
        LET o == create_word(body, fail)
        IN /\ fail <= o.stmts
           /\ Len(o.translations) <= MaxTrans
           /\ Commit(o, "create_word", NoUser, NoId, body, fail)

\* PUT /words/{wordId}
UpdateWord ==
    /\ last = Idle
    /\ \E word_id \in WordIds \cup {NoId}, body \in WordBodies, fail \in WordFails :
        LET o == update_word(word_id, body, fail)
        IN /\ fail <= o.stmts
           /\ Len(o.translations) <= MaxTrans
           /\ Commit(o, "update_word", NoUser, word_id, body, fail)

\* DELETE /words/{wordId}?userId=
DeleteWord ==
    /\ last = Idle
    /\ \E word_id \in WordIds \cup {NoId}, user_id \in UserIds \cup {NoUser}, fail \in 0..1 :
        LET o == delete_word(word_id, user_id, fail)
        IN /\ fail <= o.stmts
           /\ Commit(o, "delete_word", user_id, word_id, EmptyBody, fail)

\* GET /languages/{languageId}/words?userId=
GetLanguageWords ==
    /\ last = Idle
    /\ \E language_id \in LangIds \cup {NoId}, user_id \in UserIds \cup {NoUser},
          fail \in 0..2 :
        LET a == get_language_words(language_id, user_id, fail)
        IN /\ fail <= a.stmts
           /\ Respond(a, "get_language_words", user_id, language_id, fail)

\* GET /words?languageId=&userId=
GetWords ==
    /\ last = Idle
    /\ \E language_id \in LangIds \cup {NoId}, user_id \in UserIds \cup {NoUser},
          fail \in 0..2 :
        LET a == get_words(language_id, user_id, fail)
        IN /\ fail <= a.stmts
           /\ Respond(a, "get_words", user_id, language_id, fail)

\* GET /words/{wordId}?userId=
GetWord ==
    /\ last = Idle
    /\ \E word_id \in WordIds \cup {NoId}, user_id \in UserIds \cup {NoUser},
          fail \in 0..2 :
        LET a == get_word(word_id, user_id, fail)
        IN /\ fail <= a.stmts
           /\ Respond(a, "get_word", user_id, word_id, fail)

\* A row of app_8b514_translations stored by another writer of the database
\* (the handlers' own INSERT never commits one)
InsertTranslationRow ==
    /\ last = Idle
    /\ Len(translations) < MaxTrans
    /\ \E w \in words, meaning \in {"a", "b"} :
        Commit(Outcome(users, languages, words,
                       Append(translations, [word_id |-> w.id, language_code |-> "en",
                                             meaning |-> meaning]),
                       lambda_response(0, ""), 0),
               "insert_translation_row", NoUser, w.id, EmptyBody, 0)

\* ------------------------------------------------------------------------
\* words.py: update_word invoked by two callers at once
\* ------------------------------------------------------------------------
NoUpdate == [pc |-> "idle", body |-> EmptyBody, status |-> 0, error |-> ""]
\* the word both callers update
SharedWord == 1
\* update_word(word_id, word_data): PUT /words/{wordId} with a recognized
\* field and a translations list arrives (no user_id in the body, so no
\* ownership query)
UpdBegin(p) ==
    /\ updaters[p].pc = "idle"
    /\ \E w \in {"W1", "W2"}, L \in TransLists :
        LET body == Merge([word |-> w], [translations |-> L]) IN
        updaters' = [updaters EXCEPT ![p] = [NoUpdate EXCEPT !.pc = "update", !.body = body]]
    /\ UNCHANGED <<apiVars, migVars, call, stored, runners>>
\* result = execute_query(UPDATE app_8b514_words ... RETURNING *)
UpdWordRow(p) ==
    /\ updaters[p].pc = "update"
    /\ IF WordExists(SharedWord)
       THEN /\ words' = {IF w.id = SharedWord THEN UpdateWordRow(w, updaters[p].body)
                         ELSE w : w \in words}
            /\ updaters' = [updaters EXCEPT ![p].pc = "translations"]
       ELSE /\ words' = words
            /\ updaters' = [updaters EXCEPT ![p].pc = "done", ![p].status = 404,
                                            ![p].error = "Word not found"]
    /\ UNCHANGED <<users, languages, translations, last, migVars, call, stored, runners>>
\* `if 'translations' in word_data:` the DELETE and the inserts, each an
\* execute_query call of its own; the first call that raises ends the
\* invocation with 500
UpdTranslations(p) ==
    /\ updaters[p].pc = "translations"
    /\ LET tr == ReplaceTranslations(SharedWord, updaters[p].body, 1, 0)
       IN /\ translations' = tr.rows
          /\ updaters' = [updaters EXCEPT
                            ![p].pc = "done",
                            ![p].status = IF tr.raised # "" THEN 500 ELSE 200,
                            ![p].error = tr.raised]
    /\ UNCHANGED <<users, languages, words, last, migVars, call, stored, runners>>
\* the response is returned
UpdReturn(p) ==
    /\ updaters[p].pc = "done"
    /\ updaters' = [updaters EXCEPT ![p] = NoUpdate]
    /\ UNCHANGED <<apiVars, migVars, call, stored, runners>>

\* ------------------------------------------------------------------------
\* handler(event, context) of users.py, languages.py and words.py, for the
\* events the actions above leave out: no httpMethod, an unsupported method,
\* and POST/PUT whose body is not the text of a JSON object with keys
\* ------------------------------------------------------------------------
UsersHandler ==
    /\ last = Idle
    /\ \E method \in Methods, user_id \in UserIds \cup {NoUser}, fail \in 0..1,
          event_body \in EventBodies({b \in UserBodies :
                                        DOMAIN b = {"user_id", "email", "username"}}) :
        LET x == extract_body(event_body)
            event == [httpMethod |-> method, body |-> BodyLabel(event_body)]
            d == Dispatch(method, {"GET", "POST", "PUT"}, x, user_id = NoUser,
                          "User ID is required")
        IN /\ method # "PUT" => user_id = NoUser
           /\ IF d.done
              THEN fail = 0 /\ Decided(d, "users_handler", user_id, NoId, event)
              ELSE LET o == IF method = "POST" THEN create_or_update_user(x.value, fail)
                            ELSE update_user(user_id, x.value, fail)
                   IN /\ fail <= o.stmts
                      /\ CommitEvent(o, IF method = "POST" THEN "create_or_update_user"
                                        ELSE "update_user",
                                     user_id, NoId, x.value, fail, event, {})

LanguagesHandler ==
    /\ last = Idle
    /\ \E method \in Methods \ {"DELETE"}, language_id \in LangIds \cup {NoId}, fail \in 0..2,
          event_body \in EventBodies({b \in LanguageBodies :
                                        DOMAIN b = {"user_id", "name"}}) :
        LET x == extract_body(event_body)
            event == [httpMethod |-> method, body |-> BodyLabel(event_body)]
            d == Dispatch(method, {"GET", "POST", "PUT", "DELETE"}, x,
                          language_id = NoId, "Language ID is required")
        IN /\ method # "PUT" => language_id = NoId
           /\ method = "POST" => Cardinality(languages) < MaxLang
           /\ IF d.done
              THEN fail = 0 /\ Decided(d, "languages_handler", NoUser, language_id, event)
              ELSE LET o == IF method = "POST" THEN create_language(x.value, fail)
                            ELSE update_language(language_id, x.value, fail)
                   IN /\ fail <= o.stmts
                      /\ CommitEvent(o, IF method = "POST" THEN "create_language"
                                        ELSE "update_language",
                                     NoUser, language_id, x.value, fail, event, {})

WordsHandler ==
    /\ last = Idle
    /\ \E method \in Methods \ {"DELETE"}, word_id \in WordIds \cup {NoId}, fail \in 0..1,
          event_body \in EventBodies({b \in WordBodies :
                                        DOMAIN b = {"language_id", "word", "ipa"}}) :
        LET x == extract_body(event_body)
            event == [httpMethod |-> method, body |-> BodyLabel(event_body)]
            d == Dispatch(method, {"GET", "POST", "PUT", "DELETE"}, x,
                          word_id = NoId, "Word ID is required")
        IN /\ method # "PUT" => word_id = NoId
           /\ method = "POST" => Cardinality(words) < MaxWord
           /\ IF d.done
              THEN fail = 0 /\ Decided(d, "words_handler", NoUser, word_id, event)
              ELSE LET o == IF method = "POST" THEN create_word(x.value, fail)
                            ELSE update_word(word_id, x.value, fail)
                   IN /\ fail <= o.stmts
                      /\ CommitEvent(o, IF method = "POST" THEN "create_word"
                                        ELSE "update_word",
                                     NoUser, word_id, x.value, fail, event, {})

\* ------------------------------------------------------------------------
\* migration.py: MigrationRunner
\* ------------------------------------------------------------------------
\* get_migrations(): the embedded registry, in ascending version order
Versions == <<"20250101_120000", "20250102_143000", "20250103_091500">>
ExecTimes == {1, 2}

\* What can go wrong in one invocation: nothing, or the first statement that
\* raises.  at = "ensure": the CREATE TABLE IF NOT EXISTS of the ledger;
\* "read" / "read2": the first / second SELECT of the ledger; "body": the SQL
\* of migration v; "record": the ledger upsert (or the commit) of migration v;
\* "lost": the first SELECT of the ledger, failing because the connection
\* broke (the runner keeps the closed connection, whose cursor() then raises).
NoFault == [at |-> "none", v |-> ""]
Faults ==
    {NoFault} \cup [at : {"ensure", "read", "read2", "lost"}, v : {""}]
              \cup [at : {"body", "record"}, v : {Versions[i] : i \in 1..Len(Versions)}]

LedgerVersions(led) == {r.version : r \in led}

\* get_applied_migrations(): the versions of the ledger; a failed SELECT is
\* logged and answered with the empty list
AppliedAlwaysEmpty(led, readOk) == {}
get_applied_migrations(led, readOk) == IF readOk THEN LedgerVersions(led) ELSE {}

\* get_pending_migrations(): the registry entries not in the applied list,
\* in registry order
RECURSIVE NotIn(_, _)
NotIn(list, applied) ==
    IF list = <<>> THEN <<>>
    ELSE IF Head(list) \in applied THEN NotIn(Tail(list), applied)
    ELSE <<Head(list)>> \o NotIn(Tail(list), applied)
PendingIgnoringLedger(applied) == Versions
get_pending_migrations(applied) == NotIn(Versions, applied)

\* INSERT INTO schema_migrations ... ON CONFLICT (version) DO UPDATE SET
\* applied_at = NOW(), execution_time_ms
RecordMigration(led, version, t, ms) ==
    {r \in led : r.version # version}
        \cup {[version |-> version, applied_at |-> t, execution_time_ms |-> ms]}

\* `for migration in pending: apply_migration(migration)`.  The body carries
\* its own BEGIN/COMMIT, so it is committed before the ledger upsert; the
\* first statement that raises ends the loop (rollback, re-raise).
\* ran = versions whose body was executed and committed, in order.
RECURSIVE ApplySkippingFailed(_, _, _, _, _, _, _)
ApplySkippingFailed(pending, led, sch, ran, t, ms, fault) ==
    IF pending = <<>>
    THEN [ledger |-> led, schema |-> sch, ran |-> ran, error |-> "", fired |-> fault.at]
    ELSE LET v == Head(pending)
         IN IF fault.at = "body" /\ fault.v = v
            THEN ApplySkippingFailed(Tail(pending), led, sch, ran, t, ms, fault)
            ELSE IF fault.at = "record" /\ fault.v = v
            THEN ApplySkippingFailed(Tail(pending), led, sch \cup {v}, Append(ran, v),
                                     t, ms, fault)
            ELSE ApplySkippingFailed(Tail(pending), RecordMigration(led, v, t, ms),
                                     sch \cup {v}, Append(ran, v), t, ms, fault)
RECURSIVE ApplyAll(_, _, _, _, _, _, _)
ApplyAll(pending, led, sch, ran, t, ms, fault) ==
    IF pending = <<>>
    THEN [ledger |-> led, schema |-> sch, ran |-> ran, error |-> "", fired |-> "none"]
    ELSE LET v == Head(pending)
         IN IF fault.at = "body" /\ fault.v = v
            THEN [ledger |-> led, schema |-> sch, ran |-> ran,
                  error |-> "body of " \o v, fired |-> "body"]
            ELSE IF fault.at = "record" /\ fault.v = v
            THEN [ledger |-> led, schema |-> sch \cup {v}, ran |-> Append(ran, v),
                  error |-> "record of " \o v, fired |-> "record"]
            ELSE ApplyAll(Tail(pending), RecordMigration(led, v, t, ms),
                          sch \cup {v}, Append(ran, v), t, ms, fault)

\* the result mappings of run_migrations / get_status / handler
Failure(error) ==
    [kind |-> "failure", success |-> FALSE, applied_count |-> 0, applied |-> {},
     pending_count |-> 0, pending |-> <<>>, total |-> 0, error |-> error]
RunResult(ran) ==
    [kind |-> "run", success |-> TRUE, applied_count |-> Len(ran),
     applied |-> {ran[i] : i \in 1..Len(ran)},
     pending_count |-> 0, pending |-> <<>>, total |-> 0, error |-> ""]
StatusResult(applied, pending) ==
    [kind |-> "status", success |-> TRUE, applied_count |-> Cardinality(applied),
     applied |-> applied, pending_count |-> Len(pending), pending |-> pending,
     total |-> Len(Versions), error |-> ""]
NoAction ==
    [kind |-> "noop", success |-> TRUE, applied_count |-> 0, applied |-> {},
     pending_count |-> 0, pending |-> <<>>, total |-> 0, error |-> ""]

\* What one runner call leaves behind
RunnerOutcome(led, sch, ran, result, fired) ==
    [ledger |-> led, schema |-> sch, ran |-> ran, result |-> result, fired |-> fired]

\* run_migrations().  A failed ledger SELECT leaves the connection's
\* transaction aborted (get_applied_migrations does not roll back), so the
\* next statement on it, the first migration's SQL, raises.
RunIgnoringAbort(fault, t, ms) ==
    IF fault.at = "ensure"
    THEN RunnerOutcome(ledger, schema, <<>>, Failure("ensure_migrations_table"), "ensure")
    ELSE LET pending == get_pending_migrations(
                            get_applied_migrations(ledger, fault.at \notin {"read", "lost"}))
             a == ApplyAll(pending, ledger, schema, <<>>, t, ms, fault)
         IN RunnerOutcome(a.ledger, a.schema, a.ran,
                          IF a.error # "" THEN Failure(a.error) ELSE RunResult(a.ran),
                          IF fault.at \in {"read", "lost"} THEN fault.at ELSE a.fired)
run_migrations(fault, t, ms) ==
    IF fault.at = "ensure"
    THEN RunnerOutcome(ledger, schema, <<>>, Failure("ensure_migrations_table"), "ensure")
    ELSE IF fault.at = "lost"
    THEN RunnerOutcome(ledger, schema, <<>>, Failure("connection already closed"), "lost")
    ELSE
      LET readOk == fault.at # "read"
          pending == get_pending_migrations(get_applied_migrations(ledger, readOk))
      IN IF pending = <<>>
         THEN RunnerOutcome(ledger, schema, <<>>, RunResult(<<>>),
                            IF readOk THEN "none" ELSE "read")
         ELSE IF ~readOk
         THEN RunnerOutcome(ledger, schema, <<>>,
                            Failure("current transaction is aborted"), "read")
         ELSE LET a == ApplyAll(pending, ledger, schema, <<>>, t, ms, fault)
              IN RunnerOutcome(a.ledger, a.schema, a.ran,
                               IF a.error # "" THEN Failure(a.error) ELSE RunResult(a.ran),
                               a.fired)

\* get_status(): two reads of the ledger (its own, and the one inside
\* get_pending_migrations); once one fails the transaction is aborted and
\* the next fails too
StatusThatApplies(fault) == run_migrations(fault, now + 1, 1)
get_status(fault) ==
    IF fault.at = "ensure"
    THEN RunnerOutcome(ledger, schema, <<>>, Failure("ensure_migrations_table"), "ensure")
    ELSE IF fault.at = "lost"
    THEN RunnerOutcome(ledger, schema, <<>>, Failure("connection already closed"), "lost")
    ELSE LET read1 == fault.at # "read"
             read2 == read1 /\ fault.at # "read2"
         IN RunnerOutcome(ledger, schema, <<>>,
                StatusResult(get_applied_migrations(ledger, read1),
                             get_pending_migrations(get_applied_migrations(ledger, read2))),
                IF ~read1 THEN "read" ELSE IF ~read2 THEN "read2" ELSE "none")

\* ------------------------------------------------------------------------
\* migration.py: handler, send_cfn_response
\* ------------------------------------------------------------------------
\* The event: RequestType ("none" when the key is absent), whether it has a
\* ResponseURL, whether it has the StackId / RequestId / LogicalResourceId
\* keys send_cfn_response reads, and the action of a direct invocation.
Events ==
    {e \in [RequestType : {"none", "Create", "Update", "Delete"}, ResponseURL : BOOLEAN,
            wellFormed : BOOLEAN, action : {"absent", "up", "status", "rollback"}] :
        /\ e.RequestType # "none" => e.action = "absent"
        /\ e.RequestType = "none" => ~e.ResponseURL
        /\ ~e.ResponseURL => e.wellFormed}

\* send_cfn_response(event, context, status, data): building the envelope
\* raises KeyError when the event lacks a key; the PUT itself is inside a
\* try (a delivery failure is logged).  sent = the callbacks put on the wire.
CfnCallback(status, delivered) == [Status |-> status, delivered |-> delivered]

\* What the handler leaves behind: the runner's outcome, the value returned
\* (raised = an exception left the handler instead), the callbacks
HandlerOutcome(r, result, raised, sent) ==
    [ledger |-> r.ledger, schema |-> r.schema, ran |-> r.ran, fired |-> r.fired,
     result |-> result, raised |-> raised, sent |-> sent]

HandlerRunsOnDelete(event, fault, deliverFail, t, ms) ==
    LET r == run_migrations(fault, t, ms)
    IN HandlerOutcome(r, r.result, FALSE,
                      IF deliverFail THEN <<CfnCallback("SUCCESS", FALSE)>> ELSE <<>>)
handler(event, fault, deliverFail, t, ms) ==
    IF event.RequestType \in {"Create", "Update"}
    THEN LET r == run_migrations(fault, t, ms)
         IN IF ~event.ResponseURL THEN HandlerOutcome(r, r.result, FALSE, <<>>)
            ELSE IF event.wellFormed
            THEN HandlerOutcome(r, r.result, FALSE, <<CfnCallback("SUCCESS", ~deliverFail)>>)
            \* KeyError in send_cfn_response, and again in the except clause
            ELSE HandlerOutcome(r, Failure(KeyError), TRUE, <<>>)
    ELSE LET idle == RunnerOutcome(ledger, schema, <<>>, NoAction, "none")
         IN IF event.RequestType = "Delete"
            THEN IF ~event.ResponseURL THEN HandlerOutcome(idle, NoAction, FALSE, <<>>)
                 ELSE IF event.wellFormed
                 THEN HandlerOutcome(idle, NoAction, FALSE,
                                     <<CfnCallback("SUCCESS", ~deliverFail)>>)
                 ELSE HandlerOutcome(idle, Failure(KeyError), TRUE, <<>>)
            ELSE IF event.action \in {"absent", "up"}
            THEN LET r == run_migrations(fault, t, ms)
                 IN HandlerOutcome(r, r.result, FALSE, <<>>)
            ELSE IF event.action = "status"
            THEN LET r == get_status(fault)
                 IN HandlerOutcome(r, r.result, FALSE, <<>>)
            ELSE HandlerOutcome(idle, Failure("Unknown action: " \o event.action),
                                FALSE, <<>>)

\* No migration invocation in progress
MIdle ==
    [event |-> [RequestType |-> "none", ResponseURL |-> FALSE, wellFormed |-> TRUE,
                action |-> "none"],
     fault |-> NoFault, result |-> NoAction, raised |-> FALSE, sent |-> <<>>,
     ran |-> <<>>, pre |-> {}]

\* One invocation of the migration Lambda
MigrationHandler ==
    /\ mlast = MIdle
    /\ now < MaxClock
    /\ \E event \in Events, fault \in Faults, deliverFail \in BOOLEAN, ms \in ExecTimes :
        LET o == handler(event, fault, deliverFail, now + 1, ms)
        IN /\ o.fired = fault.at
           /\ deliverFail => o.sent # <<>>
           /\ ms # 1 => o.ledger # ledger
           /\ ledger' = o.ledger
           /\ schema' = o.schema
           /\ bodyRuns' = [v \in DOMAIN bodyRuns |->
                             bodyRuns[v] + Cardinality({i \in 1..Len(o.ran) : o.ran[i] = v})]
           /\ now' = now + 1
           /\ mlast' = [event |-> event, fault |-> fault, result |-> o.result,
                        raised |-> o.raised, sent |-> o.sent, ran |-> o.ran,
                        pre |-> ledger]
           /\ UNCHANGED <<apiVars, stepVars>>
\* The invocation ends (runner.close_connection(), the result is returned)
MigrationReturn ==
    /\ mlast # MIdle
    /\ mlast' = MIdle
    /\ UNCHANGED <<ledger, schema, bodyRuns, now>>
    /\ UNCHANGED <<apiVars, stepVars>>

\* ------------------------------------------------------------------------
\* migration.py: run_migrations invoked by two callers at once, one
\* committed statement per step
\* ------------------------------------------------------------------------
NoRun == [pc |-> "idle", pending |-> <<>>, runs |-> 0]
\* run_migrations(): ensure_migrations_table()
RunEnsure(p) ==
    /\ runners[p].pc = "idle"
    /\ runners[p].runs < MaxRuns
    /\ runners' = [runners EXCEPT ![p].pc = "read", ![p].runs = @ + 1]
    /\ UNCHANGED <<ledger, schema, bodyRuns, now, mlast, apiVars, call, stored, updaters>>
\* pending = self.get_pending_migrations(): one SELECT of the ledger
RunRead(p) ==
    /\ runners[p].pc = "read"
    /\ LET pending == get_pending_migrations(get_applied_migrations(ledger, TRUE))
       IN runners' = [runners EXCEPT ![p].pending = pending,
                                     ![p].pc = IF pending = <<>> THEN "done" ELSE "body"]
    /\ UNCHANGED <<ledger, schema, bodyRuns, now, mlast, apiVars, call, stored, updaters>>
\* apply_migration: cursor.execute(sql); the body carries its own COMMIT
RunBody(p) ==
    /\ runners[p].pc = "body"
    /\ LET v == Head(runners[p].pending)
       IN /\ schema' = schema \cup {v}
          /\ bodyRuns' = [bodyRuns EXCEPT ![v] = @ + 1]
    /\ runners' = [runners EXCEPT ![p].pc = "record"]
    /\ UNCHANGED <<ledger, now, mlast, apiVars, call, stored, updaters>>
\* apply_migration: the ledger upsert and connection.commit()
RunRecord(p) ==
    /\ runners[p].pc = "record"
    /\ \E ms \in ExecTimes :
        ledger' = RecordMigration(ledger, Head(runners[p].pending), now + 1, ms)
    /\ now' = now + 1
    /\ runners' = [runners EXCEPT ![p].pending = Tail(@),
                                  ![p].pc = IF Tail(runners[p].pending) = <<>>
                                            THEN "done" ELSE "body"]
    /\ UNCHANGED <<schema, bodyRuns, mlast, apiVars, call, stored, updaters>>
\* the result is returned, the connection closed
RunReturn(p) ==
    /\ runners[p].pc = "done"
    /\ runners' = [runners EXCEPT ![p].pc = "idle"]
    /\ UNCHANGED <<ledger, schema, bodyRuns, now, mlast, apiVars, call, stored, updaters>>

\* ------------------------------------------------------------------------
InitApi ==
    /\ users = {}
    /\ languages = {}
    /\ words = {}
    /\ translations = <<>>
    /\ last = Idle

InitSteps ==
    /\ call = NoCall
    /\ stored = {}
    /\ runners = [p \in Procs |-> NoRun]
    /\ updaters = [p \in Procs |-> NoUpdate]

InitMig ==
    /\ ledger = {}
    /\ schema = {}
    /\ bodyRuns = [v \in {Versions[i] : i \in 1..Len(Versions)} |-> 0]
    /\ now = 0
    /\ mlast = MIdle

Init == InitApi /\ InitMig /\ InitSteps

\* one invocation at a time: a handler runs, its response is returned
Next ==
    \/ CreateOrUpdateUser
    \/ UpdateUser
    \/ CreateLanguage
    \/ UpdateLanguage
    \/ DeleteLanguage
    \/ DeleteUserRow
    \/ CreateWord
    \/ UpdateWord
    \/ DeleteWord
    \/ InsertTranslationRow
    \/ GetUser
    \/ GetLanguages
    \/ GetUserLanguages
    \/ GetLanguage
    \/ GetLanguageWords
    \/ GetWords
    \/ GetWord
    \/ UsersHandler
    \/ LanguagesHandler
    \/ WordsHandler
    \/ Return

Spec == Init /\ [][Next]_vars

\* one execute_query call at a time, one statement of its code per step
NextDb ==
    \/ GetDbConnection
    \/ CursorExecute
    \/ CursorFetchall
    \/ ConnectionCommit
    \/ ConnectionRollback
    \/ Finally
    \/ CallEnds

SpecDb == Init /\ [][NextDb]_vars

\* two callers run the migrations, their statements interleaved
NextRun ==
    \/ \E p \in Procs : RunEnsure(p)
    \/ \E p \in Procs : RunRead(p)
    \/ \E p \in Procs : RunBody(p)
    \/ \E p \in Procs : RunRecord(p)
    \/ \E p \in Procs : RunReturn(p)

\* two callers update the same word, their statements interleaved
NextUpd ==
    \/ \E p \in Procs : UpdBegin(p)
    \/ \E p \in Procs : UpdWordRow(p)
    \/ \E p \in Procs : UpdTranslations(p)
    \/ \E p \in Procs : UpdReturn(p)

\* a word of u1 with zero, one or two translations already stored
InitUpd ==
    /\ users = {UserRow("u1", "e1", "n1")}
    /\ languages = {[id |-> 1, user_id |-> "u1", name |-> "L1",
                     phonemes |-> DefaultPhonemes, alphabet_mappings |-> DefaultMappings,
                     syllables |-> "CV", rules |-> ""]}
    /\ words = {[id |-> SharedWord, language_id |-> 1, word |-> "W1", ipa |-> "i",
                 pos |-> "{}", is_root |-> FALSE, embedding |-> "NULL"]}
    /\ \E n \in 0..MaxTrans :
        translations = [i \in 1..n |->
                          [word_id |-> SharedWord, language_code |-> "en",
                           meaning |-> IF i = 1 THEN "a" ELSE "b"]]
    /\ last = Idle
    /\ InitMig
    /\ InitSteps

SpecUpd == InitUpd /\ [][NextUpd]_vars

\* the migration Lambda, invoked on deploy or on demand
NextMig ==
    \/ MigrationHandler
    \/ MigrationReturn

\* a version recorded by an earlier deployment whose migration is no longer
\* in the embedded registry
Unregistered == "20241201_080000"

\* The ledger table outlives the invocations: an invocation may find any
\* subset of the registry recorded by earlier deployments, and rows of
\* versions the registry no longer holds
InitLedger ==
    /\ \E applied \in SUBSET ({Versions[i] : i \in 1..Len(Versions)} \cup {Unregistered}) :
        /\ ledger = {[version |-> v, applied_at |-> 0, execution_time_ms |-> 1] :
                        v \in applied}
        /\ schema = applied
    /\ bodyRuns = [v \in {Versions[i] : i \in 1..Len(Versions)} |-> 0]
    /\ now = 0
    /\ mlast = MIdle

InitDeployed == InitApi /\ InitLedger /\ InitSteps

SpecMig == InitDeployed /\ [][NextMig]_vars

SpecRun == InitDeployed /\ [][NextRun]_vars

\* ------------------------------------------------------------------------
\* Properties of the resource handlers (checked under Spec)
\* ------------------------------------------------------------------------
\* the tables are as the invocation found them
Untouched == Tables = last.pre

\* the first required field a create body lacks, spelled out per entity
C1_FirstLacking(op, body) ==
    IF op = "create_language"
    THEN (IF "user_id" \notin DOMAIN body THEN "user_id"
          ELSE IF "name" \notin DOMAIN body THEN "name" ELSE "")
    ELSE IF op = "create_word"
    THEN (IF "language_id" \notin DOMAIN body THEN "language_id"
          ELSE IF "word" \notin DOMAIN body THEN "word"
          ELSE IF "ipa" \notin DOMAIN body THEN "ipa" ELSE "")
    ELSE (IF "user_id" \notin DOMAIN body THEN "user_id"
          ELSE IF "email" \notin DOMAIN body THEN "email"
          ELSE IF "username" \notin DOMAIN body THEN "username" ELSE "")

\* C1: a create request (create_language, create_word, create_or_update_user)
\* whose body lacks a required field is answered 400 with the message naming
\* the first missing field in the fixed order, no database statement is
\* executed and no table changes.
C1_MissingFieldRejected ==
    (/\ last.op \in {"create_language", "create_word", "create_or_update_user"}
     /\ C1_FirstLacking(last.op, last.body) # "")
    => /\ last.status = 400
       /\ last.error = "Missing required field: " \o C1_FirstLacking(last.op, last.body)
       /\ last.stmts = 0
       /\ Untouched
\* a create_word request with an empty body, sent when a language exists, is
\* answered 400 naming language_id, the first of the three missing fields
C1_Witness ==
    /\ last.op = "create_word"
    /\ last.body = EmptyBody
    /\ languages # {}
    /\ last.status = 400
    /\ last.error = "Missing required field: language_id"

\* C2 as stated: an upsert (complete body, no infrastructure fault) with an
\* existing user_id leaves that row with the supplied email and username.
C2_UpsertAlwaysTakesEffect ==
    (/\ last.op = "create_or_update_user"
     /\ last.fail = 0
     /\ DOMAIN last.body = {"user_id", "email", "username"}
     /\ \E r \in last.pre.users : r.user_id = last.body.user_id)
    => [user_id |-> last.body.user_id, email |-> last.body.email,
        username |-> last.body.username] \in users
\* C2 (amended): there is at most one user row per user_id; an upsert
\* answered 201 leaves exactly the supplied row under that user_id and every
\* other row as it was; repeating the same upsert leaves the same table; an
\* upsert that is not answered 201 (a required field missing, the statement
\* failed: the email is held by another user, or the database is unreachable)
\* changes nothing.
C2_UpsertOneRow ==
    /\ \A r1, r2 \in users : r1.user_id = r2.user_id => r1 = r2
    /\ last.op = "create_or_update_user" /\ last.status = 201
        => /\ users = {r \in last.pre.users : r.user_id # last.body.user_id}
                        \cup {[user_id |-> last.body.user_id, email |-> last.body.email,
                               username |-> last.body.username]}
           /\ create_or_update_user(last.body, 0).users = users
           /\ create_or_update_user(last.body, 0).status = 201
    /\ last.op = "create_or_update_user" /\ last.status # 201
        => /\ Untouched
           /\ last.status \in {400, 500}
           /\ (last.status = 500 /\ last.fail = 0
                 => \E r \in users : /\ r.user_id # last.body.user_id
                                     /\ r.email = last.body.email)
\* an upsert on an existing user_id that changed the row's email
C2_Witness ==
    /\ last.op = "create_or_update_user"
    /\ last.status = 201
    /\ \E r \in last.pre.users : /\ r.user_id = last.body.user_id
                                 /\ r.email # last.body.email
    /\ \E r \in users : /\ r.user_id = last.body.user_id
                        /\ r.email = last.body.email

\* C3: every language references an existing user, every word an existing
\* language and every translation an existing word, in every reachable
\* state; a successful delete of a user row, a language or a word leaves no
\* row that referenced it, directly or transitively.
C3_NoOrphans ==
    /\ \A l \in languages : \E u \in users : u.user_id = l.user_id
    /\ \A w \in words : \E l \in languages : l.id = w.language_id
    /\ \A i \in 1..Len(translations) : \E w \in words : w.id = translations[i].word_id
    /\ last.op = "delete_user_row"
        => /\ \A l \in languages : l.user_id # last.uid
           /\ \A w \in words :
                \A l \in last.pre.languages : l.user_id = last.uid => w.language_id # l.id
    /\ last.op = "delete_language" /\ last.status = 200
        => /\ \A l \in languages : l.id # last.id
           /\ \A w \in words : w.language_id # last.id
           /\ \A i \in 1..Len(translations) :
                \A w \in last.pre.words :
                    w.language_id = last.id => translations[i].word_id # w.id
    /\ last.op = "delete_word" /\ last.status = 200
        => /\ \A w \in words : w.id # last.id
           /\ \A i \in 1..Len(translations) : translations[i].word_id # last.id
\* a user row is deleted while it owns a language with a word that has a
\* translation: all three are gone
C3_Witness ==
    /\ last.op = "delete_user_row"
    /\ \E l \in last.pre.languages :
          /\ l.user_id = last.uid
          /\ \E w \in last.pre.words :
                /\ w.language_id = l.id
                /\ \E i \in 1..Len(last.pre.translations) :
                      last.pre.translations[i].word_id = w.id
    /\ languages = {} /\ words = {} /\ translations = <<>>

\* an update request with a path id and none of the entity's recognized
\* fields in the body
C4_NoRecognizedField ==
    \/ /\ last.op = "update_language" /\ last.id # NoId
       /\ DOMAIN last.body \cap
            {"name", "phonemes", "alphabet_mappings", "syllables", "rules"} = {}
    \/ /\ last.op = "update_user" /\ last.uid # NoUser
       /\ DOMAIN last.body \cap {"email", "username"} = {}
    \/ /\ last.op = "update_word" /\ last.id # NoId
       /\ DOMAIN last.body \cap {"word", "ipa", "pos", "is_root", "embedding"} = {}
\* C4 as stated: such a request (no infrastructure fault) is answered 400
\* 'No fields to update' and changes nothing.
C4_AlwaysNoFieldsToUpdate ==
    C4_NoRecognizedField /\ last.fail = 0
    => last.status = 400 /\ last.error = "No fields to update" /\ Untouched
\* C4 (amended): such a request never changes a row or a translation.
\* update_language and update_user answer 400 'No fields to update' without
\* a database statement.  update_word does too unless the body carries
\* user_id: then its ownership query runs first, and the answer is 404 'Word
\* not found or access denied' when that user does not own the word (500
\* when the query fails), and 400 'No fields to update' otherwise.
C4_NoFieldsLeavesRow ==
    C4_NoRecognizedField
    => /\ Untouched
       /\ IF last.op = "update_word" /\ "user_id" \in DOMAIN last.body
          THEN /\ last.stmts = 1
               /\ IF last.fail = 1 THEN last.status = 500
                  ELSE IF \E w \in words :
                            /\ w.id = last.id
                            /\ \E l \in languages : /\ l.id = w.language_id
                                                    /\ l.user_id = last.body.user_id
                       THEN last.status = 400 /\ last.error = "No fields to update"
                       ELSE /\ last.status = 404
                            /\ last.error = "Word not found or access denied"
          ELSE /\ last.status = 400
               /\ last.error = "No fields to update"
               /\ last.stmts = 0
\* update_word on a word that has a translation, with a body of only a
\* translations list: 400, the translation stays
C4_Witness ==
    /\ last.op = "update_word"
    /\ DOMAIN last.body = {"translations"}
    /\ last.status = 400
    /\ \E i \in 1..Len(translations) : translations[i].word_id = last.id

\* the rows a translations list gives a word: one per entry whose meaning is
\* present and non-empty, in list order, language_code 'en' by default
RECURSIVE ExpectedRows(_, _)
ExpectedRows(word_id, list) ==
    IF list = <<>> THEN <<>>
    ELSE LET e == Head(list)
         IN IF "meaning" \in DOMAIN e /\ e.meaning # ""
            THEN <<[word_id |-> word_id,
                    language_code |-> IF "language_code" \in DOMAIN e
                                      THEN e.language_code ELSE "en",
                    meaning |-> e.meaning]>> \o ExpectedRows(word_id, Tail(list))
            ELSE ExpectedRows(word_id, Tail(list))
\* the rows of one word / of all other words, in created_at order
RowsOf(rows, word_id) == Without(rows, {w \in WordIds \cup {NoId} : w # word_id})

\* C5: a create_word request with a complete body and an embedded
\* translations list, for an existing language (owned by the body's user_id
\* when it carries one) and with no infrastructure failure, succeeds (201),
\* and the rows attached to the new word are exactly the entries with a
\* present, non-empty meaning, one row each, in list order; the other words'
\* translations are as before.
C5_CreateWordTranslations ==
    (/\ last.op = "create_word" /\ last.fail = 0
     /\ {"language_id", "word", "ipa", "translations"} \subseteq DOMAIN last.body
     /\ \E l \in last.pre.languages :
           /\ l.id = last.body.language_id
           /\ "user_id" \in DOMAIN last.body => l.user_id = last.body.user_id)
    => /\ last.status = 201
       /\ \E w \in words \ last.pre.words :
             /\ words = last.pre.words \cup {w}
             /\ RowsOf(translations, w.id) = ExpectedRows(w.id, last.body.translations)
             /\ Without(translations, {w.id}) = last.pre.translations

\* C6: an update_word request on an existing word with a recognized field
\* and a translations list L (the body's user_id, when present, owning the
\* word; no infrastructure failure) succeeds (200), and the rows attached to
\* that word are exactly the entries of L with a present, non-empty meaning,
\* whatever it had before; the other words' translations are unchanged.
C6_UpdateWordReplaces ==
    (/\ last.op = "update_word" /\ last.fail = 0
     /\ "translations" \in DOMAIN last.body
     /\ DOMAIN last.body \cap {"word", "ipa", "pos", "is_root", "embedding"} # {}
     /\ \E w \in last.pre.words :
           /\ w.id = last.id
           /\ "user_id" \in DOMAIN last.body =>
                 \E l \in last.pre.languages : /\ l.id = w.language_id
                                               /\ l.user_id = last.body.user_id)
    => /\ last.status = 200
       /\ RowsOf(translations, last.id) = ExpectedRows(last.id, last.body.translations)
       /\ Without(translations, {last.id}) = Without(last.pre.translations, {last.id})

\* ------------------------------------------------------------------------
\* Properties of the migration runner (checked under SpecMig)
\* ------------------------------------------------------------------------
Known == {Versions[i] : i \in 1..Len(Versions)}
NotYetIn(led) == SelectSeq(Versions, LAMBDA v : v \notin LedgerVersions(led))
IsRun(m) ==
    \/ m.event.RequestType \in {"Create", "Update"}
    \/ m.event.RequestType = "none" /\ m.event.action \in {"absent", "up"}
IndexOf(v) == CHOOSE i \in 1..Len(Versions) : Versions[i] = v

\* C7: for a ledger that is a subset of the known versions (and no statement
\* failing), status reports as pending exactly the known migrations whose
\* version is not in the ledger, in registry order; a successful run applies
\* exactly those and no others, leaves the earlier rows alone, and a status
\* taken afterwards reports applied_count = the number of known migrations
\* and pending_count = 0.
C7_PendingRunStatus ==
    LedgerVersions(mlast.pre) \subseteq Known =>
    /\ (mlast.event.action = "status" /\ mlast.fault = NoFault) =>
          /\ mlast.result.kind = "status"
          /\ mlast.result.pending = NotYetIn(mlast.pre)
          /\ mlast.result.pending_count = Len(NotYetIn(mlast.pre))
          /\ mlast.result.applied = LedgerVersions(mlast.pre)
          /\ mlast.ran = <<>>
    /\ mlast.result.kind = "run" =>
          /\ mlast.ran = NotYetIn(mlast.pre)
          /\ mlast.result.applied_count = Len(NotYetIn(mlast.pre))
          /\ mlast.pre \subseteq ledger
          /\ LedgerVersions(ledger) = Known
          /\ Cardinality(ledger) = Len(Versions)
          /\ get_status(NoFault).result.applied_count = Len(Versions)
          /\ get_status(NoFault).result.pending_count = 0
C7_Witness ==
    /\ mlast.result.kind = "run"
    /\ LedgerVersions(mlast.pre) = {Versions[1], Versions[2]}
    /\ mlast.ran = <<Versions[3]>>
    /\ LedgerVersions(ledger) = Known

\* C8: when every known version is already in the ledger, a run executes no
\* migration body and leaves every ledger row (applied_at and
\* execution_time_ms included) as it was, and, when no statement fails,
\* returns success with applied_count = 0; this holds for every run of a
\* sequence of runs.
C8_NothingPendingNoOp ==
    (IsRun(mlast) /\ LedgerVersions(mlast.pre) = Known) =>
        /\ mlast.ran = <<>>
        /\ ledger = mlast.pre
        /\ (mlast.fault = NoFault /\ mlast.event.wellFormed) =>
              /\ mlast.result.kind = "run"
              /\ mlast.result.success
              /\ mlast.result.applied_count = 0
              /\ mlast.result.applied = {}
C8_Witness ==
    /\ IsRun(mlast) /\ mlast.fault = NoFault
    /\ LedgerVersions(mlast.pre) = Known
    /\ mlast.result.kind = "run" /\ mlast.result.applied_count = 0
    /\ \E r \in ledger : r.applied_at = 1
    /\ now = 3

\* C9: when the SQL or the ledger upsert of pending migration v fails, the
\* run stops there: no later migration's body is executed, v and every later
\* pending version are absent from the ledger, the migrations applied earlier
\* in the run are recorded, the rows that were there stay as they were, and
\* the result has success = false with the error only (no applied list).
C9_FailureStopsRun ==
    (/\ IsRun(mlast)
     /\ mlast.fault.at \in {"body", "record"}
     /\ mlast.fault.v \notin LedgerVersions(mlast.pre)) =>
        /\ mlast.result.kind = "failure"
        /\ ~mlast.result.success
        /\ mlast.result.error # ""
        /\ mlast.result.applied_count = 0 /\ mlast.result.applied = {}
        /\ mlast.pre \subseteq ledger
        /\ \A i \in 1..Len(Versions) :
            LET v == Versions[i]
                k == IndexOf(mlast.fault.v)
                ranV == \E j \in 1..Len(mlast.ran) : mlast.ran[j] = v
            IN /\ i > k => ~ranV
               /\ (i = k /\ mlast.fault.at = "body") => ~ranV
               /\ (i >= k /\ v \notin LedgerVersions(mlast.pre)) =>
                      v \notin LedgerVersions(ledger)
               /\ (i < k /\ v \notin LedgerVersions(mlast.pre)) =>
                      /\ ranV
                      /\ \E r \in ledger : r.version = v /\ r.applied_at = now
C9_Witness ==
    /\ IsRun(mlast)
    /\ mlast.fault = [at |-> "body", v |-> Versions[2]]
    /\ mlast.pre = {}
    /\ LedgerVersions(ledger) = {Versions[1]}
    /\ mlast.ran = <<Versions[1]>>
    /\ ~mlast.result.success

\* C10: a Create or Update notification that carries a ResponseURL (and the
\* keys of the envelope) gets exactly one callback per invocation, whose
\* Status is SUCCESS when the run succeeded and FAILED when a step of the run
\* failed; a delivery failure is not raised and does not change the result.
C10_CallbackReflectsOutcome ==
    (/\ mlast.event.RequestType \in {"Create", "Update"}
     /\ mlast.event.ResponseURL
     /\ mlast.event.wellFormed) =>
        /\ Len(mlast.sent) = 1
        /\ mlast.sent[1].Status = (IF mlast.result.success THEN "SUCCESS" ELSE "FAILED")
        /\ ~mlast.raised

\* what a run leaves when no statement fails: the bodies of the known
\* versions missing from the ledger executed, in order, and recorded
RanMigrations(m) ==
    m.fault = NoFault =>
        /\ m.ran = NotYetIn(m.pre)
        /\ Known \subseteq LedgerVersions(ledger)
        /\ m.pre \subseteq ledger
        /\ m.event.wellFormed => m.result.kind = "run"
\* no migration body executed, the ledger as it was
NothingApplied(m) == m.ran = <<>> /\ ledger = m.pre

\* C11 as stated: every direct request whose action is neither 'up' nor
\* 'status' (a request without an action key included) returns an error
\* result without executing a migration body or changing the ledger.
C11_OtherDirectRequestsFail ==
    (/\ mlast # MIdle
     /\ mlast.event.RequestType = "none"
     /\ mlast.event.action \notin {"up", "status"})
    => ~mlast.result.success /\ NothingApplied(mlast)
\* C11 (amended): Create and Update run the migrations; Delete executes no
\* body and changes neither schema nor ledger; a direct request with action
\* 'up', or with no action key at all, runs the migrations; action 'status'
\* returns the status; any other action returns the error result 'Unknown
\* action: <action>' without executing a body or changing the ledger.
C11_Dispatch ==
    /\ mlast.event.RequestType \in {"Create", "Update"} => RanMigrations(mlast)
    /\ mlast.event.RequestType = "Delete" =>
          /\ NothingApplied(mlast)
          /\ mlast.event.wellFormed => mlast.result.kind = "noop"
    /\ (mlast.event.RequestType = "none" /\ mlast.event.action \in {"up", "absent"}) =>
          /\ RanMigrations(mlast)
          /\ mlast.result.kind \in {"run", "failure"}
    /\ (mlast.event.RequestType = "none" /\ mlast.event.action = "status") =>
          /\ NothingApplied(mlast)
          /\ mlast.fault.at \notin {"ensure", "lost"} => mlast.result.kind = "status"
    /\ (mlast.event.RequestType = "none" /\ mlast.event.action = "rollback") =>
          /\ NothingApplied(mlast)
          /\ mlast.result.kind = "failure"
          /\ mlast.result.error = "Unknown action: rollback"
\* a direct request without an action key applied a pending migration
C11_Witness ==
    /\ mlast.event.RequestType = "none"
    /\ mlast.event.action = "absent"
    /\ mlast.result.kind = "run"
    /\ mlast.ran # <<>>
    /\ ledger # mlast.pre

\* C12: a status request never executes a migration body and leaves the
\* ledger rows (versions, timestamps, timings) as they were, whatever the
\* ledger held; when no statement fails, the applied list it reports is the
\* ledger's versions and the pending list the known versions absent from
\* the ledger, with their counts.
C12_StatusFrame ==
    (mlast.event.RequestType = "none" /\ mlast.event.action = "status") =>
        /\ mlast.ran = <<>>
        /\ ledger = mlast.pre
        /\ mlast.fault = NoFault =>
              /\ mlast.result.success
              /\ mlast.result.applied = {r.version : r \in mlast.pre}
              /\ mlast.result.applied_count = Cardinality(mlast.pre)
              /\ mlast.result.pending = NotYetIn(mlast.pre)
              /\ mlast.result.pending_count = Len(NotYetIn(mlast.pre))
              /\ mlast.result.total = Len(Versions)
\* a status taken on a ledger that lacks a known version and holds a row of
\* an unregistered one
C12_Witness ==
    /\ mlast.event.action = "status"
    /\ mlast.fault = NoFault
    /\ mlast.result.pending = <<Versions[2]>>
    /\ Unregistered \in mlast.result.applied
    /\ ledger = mlast.pre

\* C13: when a userId is supplied with a language id and that user does not
\* own the language, get_language_words and get_words answer 404 'Language
\* not found or access denied' and return no words, the same whether the
\* language does not exist or exists under another owner.
C13_ListingNeedsOwnership ==
    (/\ last.op \in {"get_language_words", "get_words"}
     /\ last.uid # NoUser /\ last.id # NoId /\ last.fail = 0
     /\ ~\E l \in languages : l.id = last.id /\ l.user_id = last.uid)
    => /\ last.status = 404
       /\ last.error = "Language not found or access denied"
       /\ last.result = {}
       /\ last.stmts = 1
       /\ Untouched
\* get_language_words asked by u2 about a language of u1 that has a word
C13_Witness ==
    /\ last.op = "get_language_words"
    /\ last.uid = "u2"
    /\ \E l \in languages : l.id = last.id /\ l.user_id = "u1"
    /\ \E w \in words : w.language_id = last.id
    /\ last.status = 404

\* the owner a request names: in the body for updates, in the query for deletes
C14_Caller ==
    IF last.op \in {"update_language", "update_word"}
    THEN (IF "user_id" \in DOMAIN last.body THEN last.body.user_id ELSE NoUser)
    ELSE last.uid
\* the targeted resource existed before the request
C14_Existed ==
    IF last.op \in {"update_language", "delete_language"}
    THEN \E l \in last.pre.languages : l.id = last.id
    ELSE \E w \in last.pre.words : w.id = last.id
\* ... and belonged to the caller
C14_Owned ==
    IF last.op \in {"update_language", "delete_language"}
    THEN \E l \in last.pre.languages : l.id = last.id /\ l.user_id = C14_Caller
    ELSE \E w \in last.pre.words : \E l \in last.pre.languages :
            w.id = last.id /\ l.id = w.language_id /\ l.user_id = C14_Caller
C14_Mismatch ==
    /\ last.op \in {"update_language", "update_word", "delete_language", "delete_word"}
    /\ last.id # NoId
    /\ last.fail = 0
    /\ C14_Caller # NoUser
    /\ ~C14_Owned
\* C14 as stated: with an owner identifier that does not match the owner of
\* the targeted resource, the four operations change no row; update_language
\* answers 403 when the language exists and 404 when it does not, the other
\* three answer 404 in both cases.
C14_OwnerMismatchRejected ==
    C14_Mismatch
    => /\ Untouched
       /\ last.status = IF last.op = "update_language" /\ C14_Existed THEN 403 ELSE 404
\* C14, amended: no row changes in any case; the status codes are as stated
\* except that update_language looks at the body before the owner, so a body
\* with no recognized field is answered 400 'No fields to update' with no
\* database call, whoever owns the language.
C14_OwnerMismatchChangesNothing ==
    C14_Mismatch
    => /\ Untouched
       /\ IF last.op = "update_language" /\ C4_NoRecognizedField
          THEN last.status = 400 /\ last.error = "No fields to update" /\ last.stmts = 0
          ELSE last.status = IF last.op = "update_language" /\ C14_Existed THEN 403 ELSE 404
\* u2 asks to rename a language of u1 and is refused with 403
C14_Witness ==
    /\ last.op = "update_language"
    /\ "user_id" \in DOMAIN last.body /\ last.body.user_id = "u2"
    /\ "name" \in DOMAIN last.body
    /\ \E l \in languages : l.id = last.id /\ l.user_id = "u1"
    /\ last.status = 403

\* execute_query calls create_word makes before its translations loop
C15_Before == IF "user_id" \in DOMAIN last.body THEN 2 ELSE 1
\* a create_word request that inserted its word and has an entry to insert
C15_ReachedLoop ==
    /\ last.op = "create_word"
    /\ {"language_id", "word", "ipa", "translations"} \subseteq DOMAIN last.body
    /\ \E l \in last.pre.languages :
          /\ l.id = last.body.language_id
          /\ "user_id" \in DOMAIN last.body => l.user_id = last.body.user_id
    /\ last.fail = 0 \/ last.fail > C15_Before
    /\ ExpectedRows(NoId, last.body.translations) # <<>>
\* C15: in create_word the word insert and each translation insert are
\* separate committed transactions: when the k-th translation insert fails
\* (k = the insert calls made by the loop), the response is 500 with the
\* error text, the word row is committed, the k-1 rows inserted before it
\* are committed, and nothing later is inserted.
C15_WordSurvivesFailedTranslation ==
    C15_ReachedLoop
    => /\ last.status = 500
       /\ last.error \in {OperationalError, NoResultsToFetch}
       /\ last.stmts > C15_Before
       /\ \E w \in words \ last.pre.words :
             /\ words = last.pre.words \cup {w}
             /\ w.word = last.body.word /\ w.language_id = last.body.language_id
             /\ translations = last.pre.translations \o
                   SubSeq(ExpectedRows(w.id, last.body.translations),
                          1, last.stmts - C15_Before - 1)
       /\ users = last.pre.users /\ languages = last.pre.languages
\* a word sent with two translations is stored although the request failed
C15_Witness ==
    /\ C15_ReachedLoop
    /\ Len(ExpectedRows(NoId, last.body.translations)) = 2
    /\ last.status = 500
    /\ \E w \in words \ last.pre.words : w.word = last.body.word

\* the operations of the three handlers (the rest are rows written by
\* other writers)
C16_HandlerOps ==
    {"create_or_update_user", "update_user", "get_user", "users_handler",
     "create_language", "update_language", "delete_language", "get_languages",
     "get_user_languages", "get_language", "languages_handler",
     "create_word", "update_word", "delete_word", "get_language_words",
     "get_words", "get_word", "words_handler"}
\* C16: every invocation of the users, languages and words handlers ends in
\* a response with a status among 200, 201, 400, 403, 404, 405, 500: an
\* exception while extracting the request (no httpMethod, a body that is not
\* JSON) or while accessing the database gives 500 with the error text, and
\* an unsupported method gives 405 without any database call.
C16_AlwaysAnEnvelope ==
    last.op \in C16_HandlerOps
    => /\ last.status \in {200, 201, 400, 403, 404, 405, 500}
       /\ last.status = 500 => last.error # ""
       /\ last.fail # 0 => last.status = 500 /\ last.error = OperationalError
       /\ (\/ last.event.httpMethod = NoMethod
           \/ last.event.httpMethod \in {"POST", "PUT"} /\ last.event.body = "invalid")
            => last.status = 500 /\ last.error # "" /\ last.stmts = 0 /\ Untouched
       /\ (\/ last.event.httpMethod = "PATCH"
           \/ last.event.httpMethod = "DELETE" /\ last.op = "users_handler")
            => /\ last.status = 405 /\ last.error = "Method not allowed"
               /\ last.stmts = 0 /\ Untouched
\* a POST to the words handler whose body is not JSON is answered 500
C16_Witness ==
    /\ last.op = "words_handler"
    /\ last.event = [httpMethod |-> "POST", body |-> "invalid"]
    /\ last.status = 500 /\ last.error = JSONDecodeError
    /\ words # {}


\* the first required field of the create operation of the handler that ran
C18_FirstRequired ==
    IF last.op \in {"create_word", "words_handler"} THEN "language_id" ELSE "user_id"
\* C18: extract_body gives an empty mapping when the body is absent (key
\* missing or null) or the empty string, so a POST create request with no
\* body is answered 400 naming the first required field, not 500, and
\* stores nothing.
C18_NoBodyMeansEmptyMapping ==
    (/\ last.op \in C16_HandlerOps
     /\ last.event.httpMethod = "POST"
     /\ last.event.body \in {"absent", "null", "empty"})
    => /\ last.status = 400
       /\ last.error = MissingMsg(C18_FirstRequired)
       /\ Untouched

C19_EachBodyAtMostOnce ==
    /\ \A v \in Known : bodyRuns[v] <= 1
    /\ \A r1, r2 \in ledger : r1.version = r2.version => r1 = r2
    /\ (\A p \in Procs : runners[p].pc \in {"idle", "done"})
         => \A v \in Known : bodyRuns[v] > 0 => v \in LedgerVersions(ledger)

C21_StatusCountsAddUp ==
    (/\ mlast.event.RequestType = "none" /\ mlast.event.action = "status"
     /\ mlast.result.kind = "status" /\ mlast.result.success)
    => LET pending == {mlast.result.pending[i] : i \in 1..Len(mlast.result.pending)}
       IN /\ mlast.result.applied_count + mlast.result.pending_count = mlast.result.total
          /\ mlast.result.applied \cap pending = {}
          /\ mlast.result.applied \cup pending = Known

\* the ledger read of the invocation failed (and nothing else was injected)
C22_ReadFailed == mlast.fault.at \in {"read", "lost"}
\* C22 as stated: when the ledger read fails, a run goes on to apply every
\* known migration, those already recorded included, and reports success;
\* a status reports success with applied_count = 0.
C22_RunAppliesEverything ==
    C22_ReadFailed
    => /\ IsRun(mlast) => mlast.ran = Versions
       /\ (IsRun(mlast) /\ mlast.event.wellFormed)
            => mlast.result.success /\ mlast.result.applied = Known
       /\ mlast.event.action = "status"
            => mlast.result.success /\ mlast.result.applied_count = 0
\* C22, amended: the failed read is swallowed and every known migration is
\* taken as pending, but the failed SELECT has left the connection unusable
\* (its transaction aborted, or the connection closed), so the first
\* migration raises: no body is executed, the ledger is as it was, and the
\* run reports failure.  A status reports success with applied_count = 0
\* and every known version pending when the transaction was aborted, and
\* failure when the connection was closed.
C22_ReadFailureStopsRun ==
    C22_ReadFailed
    => /\ mlast.ran = <<>>
       /\ ledger = mlast.pre
       /\ (IsRun(mlast) /\ mlast.event.wellFormed)
            => /\ ~mlast.result.success
               /\ mlast.result.kind = "failure"
               /\ mlast.result.error # ""
       /\ (mlast.event.action = "status" /\ mlast.fault.at = "lost")
            => ~mlast.result.success /\ mlast.result.kind = "failure"
       /\ (mlast.event.action = "status" /\ mlast.fault.at = "read")
            => /\ mlast.result.success
               /\ mlast.result.applied_count = 0 /\ mlast.result.applied = {}
               /\ mlast.result.pending = Versions
               /\ mlast.result.pending_count = Len(Versions)
\* a run whose ledger read failed, on a ledger that already records the
\* first version: nothing is executed and the run fails
C22_Witness ==
    /\ mlast.fault.at = "read" /\ IsRun(mlast) /\ mlast.event.wellFormed
    /\ Versions[1] \in LedgerVersions(mlast.pre)
    /\ Versions[2] \notin LedgerVersions(mlast.pre)
    /\ ~mlast.result.success
    /\ \A v \in Known : bodyRuns[v] = 0

====
